---- MODULE Spec2Model ----
(***************************************************************************)
(* Model of the inventory and bidding backend of mian.py: class Item       *)
(* (adjust_stock), class Offer (add_bid, get_highest_bid) and class        *)
(* InventoryManager (update_stock, create_new_offer, track_bid,            *)
(* complete_bid, process_one_off_order).  datetime.now() is the variable   *)
(* now, advanced by Tick; every handler reads it once.                     *)
(***************************************************************************)
EXTENDS Integers, Sequences, FiniteSets, TLC

\* ---------------------------------------------------------------- bounds
MaxTime == 1          \* the clock runs 0..MaxTime
MaxOffers == 2        \* create_new_offer succeeds at most MaxOffers times
MaxStock == 20        \* inputs that would raise a stock above this are not drawn

\* ---------------------------------------------------------------- inputs
\* The arguments the calls are drawn from: <<item, delta or quantity>> pairs,
\* end times, and <<offer number, <<merchant, amount>>>> pairs.
Items == {"TS-A", "TS-B", "SH-C"}
UnknownItem == "NON-EXISTENT-ITEM"
UpdateInputs == ({"TS-B"} \X {-1000, -20, 0, 20}) \cup {<<UnknownItem, -20>>}
OfferInputs == ({"TS-B"} \X {-20, 20, 1000}) \cup {<<UnknownItem, 20>>}
OrderInputs == ({"TS-B"} \X {20, 100}) \cup {<<UnknownItem, 20>>}
EndTimes == {0}
\* Bids: two merchants compete on the first offer (a tie at 500 in either
\* order, a raise from 450 to 500); the other offers receive the bid of a
\* merchant whose identifier is the empty string.
BidInputs == ({1} \X {<<"Merchant-Alpha", 450>>, <<"Merchant-Alpha", 500>>,
                        <<"Merchant-Beta", 500>>})
                 \cup ((2..MaxOffers) \X {<<"", 450>>})

\* Python's None for Offer.winner and for return values: an option value.
None == <<>>
Some(x) == <<x>>

\* f"OFFER-{self.next_offer_id}"
OfferIdOf(n) == <<"OFFER-", n>>
OfferIds == {OfferIdOf(n) : n \in 1..MaxOffers}

VARIABLES stock, offers, next_offer_id, now, ret, returned_log

vars == <<stock, offers, next_offer_id, now, ret, returned_log>>

\* ------------------------------------------------------------ class Item
\* _load_initial_inventory: the seed stock of each item.
SeedStock == [i \in Items |-> CASE i = "TS-A" -> 50
                                [] i = "TS-B" -> 20
                                [] OTHER -> 65]

\* Item.unit_price of the seed items.
UnitPrice == [i \in Items |-> IF i = "TS-A" THEN 20 ELSE 25]

\* Variant: the guard looks at the stock before the adjustment only.
adjust_stock_checks_old(s, amount) ==
    IF s < 0
    THEN [raised |-> TRUE, stock |-> s]
    ELSE [raised |-> FALSE, stock |-> s + amount]

\* Variant: an adjustment that empties the stock is refused.
adjust_stock_rejects_empty(s, amount) ==
    IF s + amount <= 0
    THEN [raised |-> TRUE, stock |-> s]
    ELSE [raised |-> FALSE, stock |-> s + amount]

\* Variant: the stock is updated before the guard raises.
adjust_stock_adds_first(s, amount) ==
    IF s + amount < 0
    THEN [raised |-> TRUE, stock |-> s + amount]
    ELSE [raised |-> FALSE, stock |-> s + amount]

\* Item.adjust_stock: raises ValueError and leaves stock alone, or adds amount.
adjust_stock(s, amount) ==
    IF s + amount < 0
    THEN [raised |-> TRUE, stock |-> s]
    ELSE [raised |-> FALSE, stock |-> s + amount]

\* ----------------------------------------------------------- class Offer
\* Variant: the offer is registered with a stale winning bid.
NewOfferKeepsQuantityAsBid(item_id, quantity, end_time) ==
    [item_id |-> item_id, quantity |-> quantity, end_time |-> end_time,
     bids |-> <<>>, status |-> "active", winner |-> None,
     winning_bid |-> quantity]

\* Offer.__init__
NewOffer(item_id, quantity, end_time) ==
    [item_id |-> item_id, quantity |-> quantity, end_time |-> end_time,
     bids |-> <<>>, status |-> "active", winner |-> None, winning_bid |-> 0]

\* The dict self.bids in insertion order: a sequence of <<merchant, amount>>.
BidKeys(bids) == {bids[k][1] : k \in DOMAIN bids}
BidIndex(bids, m) == CHOOSE k \in DOMAIN bids : bids[k][1] = m
BidOf(bids, m) == bids[BidIndex(bids, m)][2]

\* Variant: an accepted bid discards the entries of the other merchants.
SetBidResets(bids, m, amount) == <<<<m, amount>>>>

\* self.bids[merchant_id] = amount: overwrite in place or append.
SetBid(bids, m, amount) ==
    IF m \in BidKeys(bids)
    THEN [bids EXCEPT ![BidIndex(bids, m)] = <<m, amount>>]
    ELSE Append(bids, <<m, amount>>)

\* Variant: the window is already closed at the instant end_time itself.
WindowClosedAtEnd(offer, t) == t >= offer.end_time

\* Variant: the window is still open at the first instant after end_time.
WindowClosedLate(offer, t) == t > offer.end_time + 1

\* "datetime.now() > self.end_time" in add_bid.
WindowClosed(offer, t) == t > offer.end_time

\* Variant: an equal amount counts as an improvement.
NotHigherStrict(bids, merchant_id, amount) ==
    merchant_id \in BidKeys(bids) /\ BidOf(bids, merchant_id) > amount

\* "merchant_id in self.bids and self.bids[merchant_id] >= amount" in add_bid.
NotHigher(bids, merchant_id, amount) ==
    merchant_id \in BidKeys(bids) /\ BidOf(bids, merchant_id) >= amount

\* Offer.add_bid: the returned flag and the resulting bid mapping.
add_bid(offer, merchant_id, amount, t) ==
    IF offer.status # "active" THEN [ok |-> FALSE, bids |-> offer.bids]
    ELSE IF WindowClosed(offer, t) THEN [ok |-> FALSE, bids |-> offer.bids]
    ELSE IF NotHigher(offer.bids, merchant_id, amount)
         THEN [ok |-> FALSE, bids |-> offer.bids]
    ELSE [ok |-> TRUE, bids |-> SetBid(offer.bids, merchant_id, amount)]

\* Variant: only a cancelled offer is refused.
NotActiveOnlyCancelled(offer) == offer.status = "cancelled"

\* "offer.status != 'active'" in complete_bid.
NotActive(offer) == offer.status # "active"

\* Variant: completion is allowed at the instant end_time itself.
StillOpenBefore(offer, t) == t < offer.end_time

\* "datetime.now() <= offer.end_time" in complete_bid.
StillOpen(offer, t) == t <= offer.end_time

\* Variant: among equal amounts the entry met last wins.
MaxIndexLast(bids) ==
    CHOOSE k \in DOMAIN bids :
        /\ \A j \in DOMAIN bids : bids[j][2] <= bids[k][2]
        /\ \A j \in (k + 1)..Len(bids) : bids[j][2] < bids[k][2]

\* max(self.bids.items(), key=...): the first entry, in iteration order,
\* that no entry exceeds.
MaxIndex(bids) ==
    CHOOSE k \in DOMAIN bids :
        /\ \A j \in DOMAIN bids : bids[j][2] <= bids[k][2]
        /\ \A j \in 1..(k - 1) : bids[j][2] < bids[k][2]

\* Variant: the entry inserted first is returned, whatever its amount.
get_highest_bid_first(bids) ==
    IF bids = <<>> THEN <<None, 0>>
    ELSE <<Some(bids[1][1]), bids[1][2]>>

\* Offer.get_highest_bid: (None, 0) or (merchant_id, amount).
get_highest_bid(bids) ==
    IF bids = <<>> THEN <<None, 0>>
    ELSE <<Some(bids[MaxIndex(bids)][1]), bids[MaxIndex(bids)][2]>>

\* Python truth value of winner_id in "if winner_id:".
Truthy(w) == w # None /\ w[1] # ""

\* ------------------------------------------------- class InventoryManager
\* The last call: its name, its arguments (item or offer identifier, merchant,
\* amount/quantity/delta, end time), whether it succeeded and what it returned.
NoRet == [op |-> "init", item |-> "", offer |-> None, merchant |-> "",
          amount |-> 0, end_time |-> 0, ok |-> FALSE, value |-> None]

Ret(op, item, offer, merchant, amount, ok, value) ==
    [op |-> op, item |-> item, offer |-> offer, merchant |-> merchant,
     amount |-> amount, end_time |-> 0, ok |-> ok, value |-> value]

Init ==
    /\ stock = SeedStock
    /\ offers = <<>>
    /\ next_offer_id = 1
    /\ now = 0
    /\ ret = NoRet
    /\ returned_log = <<>>

\* datetime.now() moves forward between calls.
Tick ==
    /\ now < MaxTime
    /\ now' = now + 1
    /\ ret' = [NoRet EXCEPT !.op = "tick"]
    /\ UNCHANGED <<stock, offers, next_offer_id, returned_log>>

\* InventoryManager.update_stock
update_stock(item_id, adjustment_amount) ==
    /\ IF item_id \notin Items
       THEN /\ UNCHANGED stock
            /\ ret' = Ret("update_stock", item_id, None, "", adjustment_amount,
                          FALSE, None)
       ELSE LET r == adjust_stock(stock[item_id], adjustment_amount) IN
            /\ r.stock <= MaxStock \/ r.stock <= stock[item_id]
            /\ stock' = [stock EXCEPT ![item_id] = r.stock]
            /\ ret' = Ret("update_stock", item_id, None, "", adjustment_amount,
                          ~r.raised, None)
    /\ UNCHANGED <<offers, next_offer_id, now, returned_log>>

\* Variant: the counter is not advanced.
NextCounterStuck(n) == n

\* "self.next_offer_id += 1" in create_new_offer.
NextCounter(n) == n + 1

\* InventoryManager.create_new_offer
create_new_offer(item_id, quantity, end_time) ==
    IF item_id \notin Items
    THEN /\ ret' = Ret("create_new_offer", item_id, None, "", quantity,
                       FALSE, None)
         /\ UNCHANGED <<stock, offers, next_offer_id, now, returned_log>>
    ELSE LET r == adjust_stock(stock[item_id], -quantity)
             offer_id == OfferIdOf(next_offer_id) IN
         IF r.raised
         THEN /\ stock' = [stock EXCEPT ![item_id] = r.stock]
              /\ ret' = Ret("create_new_offer", item_id, None, "", quantity,
                            FALSE, None)
              /\ UNCHANGED <<offers, next_offer_id, now, returned_log>>
         ELSE /\ next_offer_id <= MaxOffers
              /\ r.stock <= MaxStock \/ r.stock <= stock[item_id]
              /\ stock' = [stock EXCEPT ![item_id] = r.stock]
              /\ next_offer_id' = NextCounter(next_offer_id)
              /\ offers' = [o \in DOMAIN offers \cup {offer_id} |->
                              IF o = offer_id
                              THEN NewOffer(item_id, quantity, end_time)
                              ELSE offers[o]]
              /\ returned_log' = [o \in DOMAIN offers \cup {offer_id} |->
                                    IF o \in DOMAIN returned_log
                                    THEN returned_log[o] ELSE 0]
              /\ ret' = [Ret("create_new_offer", item_id, Some(offer_id), "",
                             quantity, TRUE, Some(offer_id))
                           EXCEPT !.end_time = end_time]
              /\ UNCHANGED now

\* InventoryManager.track_bid
track_bid(offer_id, merchant_id, amount) ==
    IF offer_id \notin DOMAIN offers
    THEN /\ ret' = Ret("track_bid", "", Some(offer_id), merchant_id, amount,
                       FALSE, None)
         /\ UNCHANGED <<stock, offers, next_offer_id, now, returned_log>>
    ELSE LET r == add_bid(offers[offer_id], merchant_id, amount, now) IN
         /\ offers' = [offers EXCEPT ![offer_id].bids = r.bids]
         /\ ret' = Ret("track_bid", "", Some(offer_id), merchant_id, amount,
                       r.ok, None)
         /\ UNCHANGED <<stock, next_offer_id, now, returned_log>>

\* InventoryManager.complete_bid
complete_bid(offer_id) ==
    IF offer_id \notin DOMAIN offers
    THEN /\ ret' = Ret("complete_bid", "", Some(offer_id), "", 0, FALSE, None)
         /\ UNCHANGED <<stock, offers, next_offer_id, now, returned_log>>
    ELSE LET offer == offers[offer_id] IN
         IF NotActive(offer) \/ StillOpen(offer, now)
         THEN /\ ret' = Ret("complete_bid", "", Some(offer_id), "", 0, FALSE,
                            None)
              /\ UNCHANGED <<stock, offers, next_offer_id, now, returned_log>>
         ELSE LET hb == get_highest_bid(offer.bids)
                  winner_id == hb[1]
                  winning_bid == hb[2] IN
              IF Truthy(winner_id)
              THEN /\ offers' = [offers EXCEPT
                                   ![offer_id].status = "completed",
                                   ![offer_id].winner = winner_id,
                                   ![offer_id].winning_bid = winning_bid]
                   /\ ret' = Ret("complete_bid", "", Some(offer_id), "", 0,
                                 TRUE, None)
                   /\ UNCHANGED <<stock, next_offer_id, now, returned_log>>
              ELSE LET r == adjust_stock(stock[offer.item_id], offer.quantity) IN
                   /\ stock' = [stock EXCEPT ![offer.item_id] = r.stock]
                   /\ returned_log' =
                        IF r.raised THEN returned_log
                        ELSE [returned_log EXCEPT ![offer_id] = @ + 1]
                   /\ offers' = [offers EXCEPT ![offer_id].status = "completed"]
                   /\ ret' = Ret("complete_bid", "", Some(offer_id), "", 0,
                                 TRUE, None)
                   /\ UNCHANGED <<next_offer_id, now>>

\* Variant: the price is returned whether or not the stock was adjusted.
process_one_off_order_always_prices(item_id, quantity) ==
    IF item_id \notin Items
    THEN /\ ret' = Ret("process_one_off_order", item_id, None, "", quantity,
                       FALSE, None)
         /\ UNCHANGED <<stock, offers, next_offer_id, now, returned_log>>
    ELSE LET r == adjust_stock(stock[item_id], -quantity) IN
         /\ stock' = [stock EXCEPT ![item_id] = r.stock]
         /\ ret' = Ret("process_one_off_order", item_id, None, "", quantity,
                       ~r.raised, Some(UnitPrice[item_id] * quantity))
         /\ UNCHANGED <<offers, next_offer_id, now, returned_log>>

\* InventoryManager.process_one_off_order
process_one_off_order(item_id, quantity) ==
    IF item_id \notin Items
    THEN /\ ret' = Ret("process_one_off_order", item_id, None, "", quantity,
                       FALSE, None)
         /\ UNCHANGED <<stock, offers, next_offer_id, now, returned_log>>
    ELSE LET r == adjust_stock(stock[item_id], -quantity) IN
         /\ stock' = [stock EXCEPT ![item_id] = r.stock]
         /\ ret' = Ret("process_one_off_order", item_id, None, "", quantity,
                       ~r.raised,
                       IF r.raised THEN None
                       ELSE Some(UnitPrice[item_id] * quantity))
         /\ UNCHANGED <<offers, next_offer_id, now, returned_log>>

Next ==
    \/ Tick
    \/ \E u \in UpdateInputs : update_stock(u[1], u[2])
    \/ \E c \in OfferInputs, e \in EndTimes : create_new_offer(c[1], c[2], e)
    \/ \E b \in BidInputs : track_bid(OfferIdOf(b[1]), b[2][1], b[2][2])
    \/ \E o \in OfferIds : complete_bid(o)
    \/ \E c \in OrderInputs : process_one_off_order(c[1], c[2])

Spec == Init /\ [][Next]_vars

TypeOK ==
    /\ stock \in [Items -> Int]
    /\ next_offer_id \in 1..(MaxOffers + 1)
    /\ now \in 0..MaxTime
    /\ DOMAIN offers = {OfferIdOf(n) : n \in 1..(next_offer_id - 1)}
    /\ DOMAIN returned_log = DOMAIN offers

\* ------------------------------------------------------------ properties
\* The offer a call was addressed to, when it is registered.
Target(r) == r.offer[1]
OnOffer(r, op) == r.op = op /\ r.offer # None /\ r.offer[1] \in DOMAIN offers

\* C1: starting from the seed inventory, after any sequence of calls every
\* item's stock is >= 0.
C1_StockNeverNegative == \A i \in Items : stock[i] >= 0

\* A decrement was refused on an item whose stock had been drained to zero.
C1_Witness ==
    /\ ret.op \in {"update_stock", "create_new_offer", "process_one_off_order"}
    /\ ret.item = "TS-B" /\ ~ret.ok /\ stock["TS-B"] = 0

\* C2: adjust_stock(delta) succeeds exactly when stock + delta >= 0; on
\* success the new stock is old stock + delta, on failure it is the old stock.
C2_AdjustStock ==
    [][(ret'.op = "update_stock" /\ ret'.item \in Items) =>
          LET i == ret'.item
              d == ret'.amount IN
          /\ ret'.ok <=> (stock[i] + d >= 0)
          /\ ret'.ok => stock'[i] = stock[i] + d
          /\ ~ret'.ok => stock'[i] = stock[i]]_vars

\* A manual adjustment was refused and the stock kept its earlier value.
C2_Witness ==
    /\ ret.op = "update_stock" /\ ret.item = "TS-B" /\ ~ret.ok
    /\ ret.amount = -1000 /\ stock["TS-B"] = 20 /\ DOMAIN offers # {}

\* C3: a successful create_new_offer reduces the item's stock by exactly
\* quantity, leaves the other items alone and registers exactly one new offer:
\* active, with the given item, quantity and end time, no bids, no winner and
\* winning bid 0.
C3_CreateOffer ==
    [][(ret'.op = "create_new_offer" /\ ret'.ok) =>
          LET i == ret'.item
              q == ret'.amount
              id == ret'.value[1] IN
          /\ stock'[i] = stock[i] - q
          /\ \A j \in Items \ {i} : stock'[j] = stock[j]
          /\ id \notin DOMAIN offers
          /\ DOMAIN offers' = DOMAIN offers \cup {id}
          /\ \A o \in DOMAIN offers : offers'[o] = offers[o]
          /\ offers'[id] = [item_id |-> i, quantity |-> q,
                            end_time |-> ret'.end_time, bids |-> <<>>,
                            status |-> "active", winner |-> None,
                            winning_bid |-> 0]]_vars

\* An offer for 20 units was just created next to an earlier one.
C3_Witness ==
    /\ ret.op = "create_new_offer" /\ ret.ok /\ ret.amount = 20
    /\ ret.value = Some(OfferIdOf(2)) /\ stock["TS-B"] = 0

\* C4: a failed create_new_offer (unknown item, or quantity above the stock)
\* returns no offer id and changes neither the stocks, nor the registry, nor
\* any offer, nor the offer-id counter.
C4_FailedCreateIsAtomic ==
    [][ret'.op = "create_new_offer" =>
          /\ ~ret'.ok <=> (ret'.item \notin Items
                             \/ ret'.amount > stock[ret'.item])
          /\ ~ret'.ok => /\ ret'.value = None
                         /\ UNCHANGED <<stock, offers, next_offer_id>>]_vars

\* create_new_offer was refused for lack of stock while an offer exists.
C4_Witness ==
    /\ ret.op = "create_new_offer" /\ ~ret.ok /\ ret.item = "TS-B"
    /\ ret.amount > stock["TS-B"] /\ DOMAIN offers # {}

\* C5: on an active offer with an open window, a bid of a merchant that has a
\* stored bid replaces it iff it is strictly greater, a rejected bid leaves
\* the mapping unchanged, a merchant without a stored bid is accepted with any
\* amount, and the mapping holds at most one entry per merchant.
C5_BidReplacedOnlyWhenHigher ==
    [][(OnOffer(ret', "track_bid")
          /\ offers[Target(ret')].status = "active"
          /\ now <= offers[Target(ret')].end_time) =>
          LET o == Target(ret')
              m == ret'.merchant
              a == ret'.amount
              old == offers[o].bids
              new == offers'[o].bids IN
          /\ IF m \in BidKeys(old)
             THEN /\ ret'.ok <=> a > BidOf(old, m)
                  /\ ret'.ok => new = [old EXCEPT ![BidIndex(old, m)] = <<m, a>>]
             ELSE /\ ret'.ok
                  /\ new = Append(old, <<m, a>>)
          /\ ~ret'.ok => new = old
          /\ \A j, k \in DOMAIN new : new[j][1] = new[k][1] => j = k]_vars

\* A merchant repeated its own amount on an open offer and was rejected.
C5_Witness ==
    /\ OnOffer(ret, "track_bid") /\ ~ret.ok
    /\ offers[Target(ret)].status = "active"
    /\ now <= offers[Target(ret)].end_time
    /\ ret.merchant \in BidKeys(offers[Target(ret)].bids)
    /\ BidOf(offers[Target(ret)].bids, ret.merchant) = ret.amount
    /\ Len(offers[Target(ret)].bids) = 2

\* C6: a bid submitted strictly after end_time is rejected and leaves the bid
\* mapping unchanged, whatever the merchant and the amount, also while the
\* offer is still active.
C6_LateBidRejected ==
    [][(OnOffer(ret', "track_bid") /\ now > offers[Target(ret')].end_time) =>
          /\ ~ret'.ok
          /\ offers' = offers]_vars

\* A bid above every recorded bid came after the end of a still active offer.
C6_Witness ==
    /\ OnOffer(ret, "track_bid") /\ ~ret.ok
    /\ offers[Target(ret)].status = "active"
    /\ now > offers[Target(ret)].end_time
    /\ offers[Target(ret)].bids # <<>>
    /\ \A k \in DOMAIN offers[Target(ret)].bids :
          offers[Target(ret)].bids[k][2] < ret.amount

\* C7: complete_bid on an active offer at now <= end_time fails and changes
\* nothing; hence no offer is completed before its end time has passed.
C7_NoEarlyCompletion ==
    [][/\ (OnOffer(ret', "complete_bid")
             /\ offers[Target(ret')].status = "active"
             /\ now <= offers[Target(ret')].end_time) =>
             /\ ~ret'.ok
             /\ UNCHANGED <<stock, offers, next_offer_id, returned_log>>
       /\ \A o \in DOMAIN offers' :
             offers'[o].status = "completed" => now' > offers'[o].end_time]_vars

\* complete_bid was refused at now = end_time on an offer that holds a bid.
C7_Witness ==
    /\ OnOffer(ret, "complete_bid") /\ ~ret.ok
    /\ offers[Target(ret)].status = "active"
    /\ now = offers[Target(ret)].end_time
    /\ offers[Target(ret)].bids # <<>>

\* A call of complete_bid on a registered, active offer whose window has closed.
Finalizes(r) ==
    /\ OnOffer(r, "complete_bid")
    /\ offers[Target(r)].status = "active"
    /\ now > offers[Target(r)].end_time

\* The largest amount in a non-empty bid mapping.
MaxAmount(bids) ==
    CHOOSE a \in {bids[k][2] : k \in DOMAIN bids} :
        \A k \in DOMAIN bids : bids[k][2] <= a

\* C8: complete_bid on an active offer whose window has closed and that has
\* no bids raises the item's stock by exactly the reserved quantity and
\* completes the offer with winner none and winning bid 0.
C8_NoBidFinalizeReturnsStock ==
    [][(Finalizes(ret') /\ offers[Target(ret')].bids = <<>>) =>
          LET o == Target(ret')
              i == offers[o].item_id IN
          /\ stock'[i] = stock[i] + offers[o].quantity
          /\ offers'[o].status = "completed"
          /\ offers'[o].winner = None
          /\ offers'[o].winning_bid = 0]_vars

\* C9: complete_bid on an active offer whose window has closed and that holds
\* a bid completes it, records as winner a merchant whose stored bid is the
\* maximum, records that maximum as winning bid and changes no stock.
C9_WinningFinalize ==
    [][(Finalizes(ret') /\ offers[Target(ret')].bids # <<>>) =>
          LET o == Target(ret')
              bids == offers[o].bids
              w == offers'[o].winner IN
          /\ offers'[o].status = "completed"
          /\ w # None
          /\ w[1] \in BidKeys(bids)
          /\ BidOf(bids, w[1]) = MaxAmount(bids)
          /\ offers'[o].winning_bid = MaxAmount(bids)
          /\ stock' = stock]_vars

\* C10: an offer's reserved quantity is credited back to the stock exactly
\* once if the offer completed with no bids, and never otherwise.
C10_CreditedBackExactlyOnce ==
    \A o \in DOMAIN offers :
        returned_log[o] =
            IF offers[o].status = "completed" /\ offers[o].bids = <<>>
            THEN 1 ELSE 0

\* C11: every offer starts active, its status changes at most once, from
\* active to completed, and a completed offer is changed by no call;
\* complete_bid on an offer that is not active changes no stock either.
C11_CompletedIsFrozen ==
    [][/\ \A o \in DOMAIN offers' \ DOMAIN offers : offers'[o].status = "active"
       /\ \A o \in DOMAIN offers :
             /\ o \in DOMAIN offers'
             /\ offers'[o].status \in {"active", "completed"}
             /\ offers'[o].status # offers[o].status =>
                   offers[o].status = "active"
             /\ offers[o].status = "completed" => offers'[o] = offers[o]
       /\ (OnOffer(ret', "complete_bid")
             /\ offers[Target(ret')].status # "active") =>
             /\ ~ret'.ok
             /\ UNCHANGED <<stock, offers, next_offer_id, returned_log>>]_vars

\* complete_bid was called again on an offer completed with no winner, whose
\* item has stock to spare.
C11_Witness ==
    /\ OnOffer(ret, "complete_bid") /\ ~ret.ok
    /\ offers[Target(ret)].status = "completed"
    /\ offers[Target(ret)].winner = None
    /\ offers[Target(ret)].quantity = 20
    /\ returned_log[Target(ret)] = 1

\* C12: the credit-back of a no-bid finalize never fails: whenever
\* complete_bid finalizes an offer that has no bids, adjust_stock(+quantity)
\* succeeds and the quantity is returned to the stock.
C12_CreditBackNeverFails ==
    [][(Finalizes(ret') /\ offers[Target(ret')].bids = <<>>) =>
          LET o == Target(ret')
              i == offers[o].item_id IN
          /\ stock[i] + offers[o].quantity >= 0
          /\ returned_log'[o] = returned_log[o] + 1]_vars

\* C13: offer identifiers are the prefix plus the counter, the first one
\* returned is prefix plus 1, each later one has a counter strictly greater
\* than every identifier returned before, none is returned twice or
\* overwrites a registry entry, and a failed call does not move the counter.
C13_OfferIdsUniqueIncreasing ==
    [][ret'.op = "create_new_offer" =>
          IF ret'.ok
          THEN LET id == ret'.value[1] IN
               /\ id[1] = "OFFER-" /\ id[2] = next_offer_id
               /\ DOMAIN offers = {} => id[2] = 1
               /\ \A o \in DOMAIN offers : o[2] < id[2]
               /\ id \notin DOMAIN offers
               /\ \A o \in DOMAIN offers : offers'[o] = offers[o]
               /\ next_offer_id' > next_offer_id
          ELSE next_offer_id' = next_offer_id]_vars

\* A second identifier, OFFER-2, was returned.
C13_Witness ==
    /\ ret.op = "create_new_offer" /\ ret.ok
    /\ ret.value = Some(<<"OFFER-", 2>>)
    /\ DOMAIN offers = {<<"OFFER-", 1>>, <<"OFFER-", 2>>}

\* The entries of a bid mapping that hold its largest amount.
Highest(bids) == {k \in DOMAIN bids : \A j \in DOMAIN bids : bids[j][2] <= bids[k][2]}

\* The smallest number of a non-empty set of entry positions.
First(S) == CHOOSE k \in S : \A j \in S : k <= j

\* C14: get_highest_bid returns (none, 0) on an empty mapping, otherwise the
\* entry with the maximum amount that was inserted first; an accepted re-bid
\* keeps the position of the merchant's first insertion and a new merchant
\* is inserted last.
C14_HighestBidFirstInserted ==
    [][/\ (ret'.op \in {"track_bid", "complete_bid"}
             /\ Target(ret') \in DOMAIN offers') =>
             LET bids == offers'[Target(ret')].bids
                 hb == get_highest_bid(bids) IN
             IF bids = <<>> THEN hb = <<None, 0>>
             ELSE /\ hb[1] = Some(bids[First(Highest(bids))][1])
                  /\ hb[2] = bids[First(Highest(bids))][2]
       /\ (OnOffer(ret', "track_bid") /\ ret'.ok) =>
             LET old == offers[Target(ret')].bids
                 new == offers'[Target(ret')].bids IN
             /\ \A k \in DOMAIN old : new[k][1] = old[k][1]
             /\ IF ret'.merchant \in BidKeys(old)
                THEN Len(new) = Len(old)
                ELSE Len(new) = Len(old) + 1
                       /\ new[Len(new)] = <<ret'.merchant, ret'.amount>>]_vars

\* Merchant-Alpha, inserted first, raised its bid to tie with Merchant-Beta
\* and is the highest bidder.
C14_Witness ==
    /\ OnOffer(ret, "track_bid") /\ ret.ok /\ ret.merchant = "Merchant-Alpha"
    /\ offers[Target(ret)].bids
          = <<<<"Merchant-Alpha", 500>>, <<"Merchant-Beta", 500>>>>
    /\ get_highest_bid(offers[Target(ret)].bids) = <<Some("Merchant-Alpha"), 500>>

\* C15: process_one_off_order returns a price only on success: for an unknown
\* item or a quantity above the stock it returns the failure value and leaves
\* every stock and every offer unchanged; otherwise it returns
\* unit_price * quantity and lowers the item's stock by exactly quantity.
C15_OneOffOrder ==
    [][ret'.op = "process_one_off_order" =>
          LET i == ret'.item
              q == ret'.amount IN
          IF i \notin Items \/ q > stock[i]
          THEN /\ ~ret'.ok /\ ret'.value = None
               /\ UNCHANGED <<stock, offers, next_offer_id, returned_log>>
          ELSE /\ ret'.ok /\ ret'.value = Some(UnitPrice[i] * q)
               /\ stock' = [stock EXCEPT ![i] = stock[i] - q]
               /\ UNCHANGED <<offers, next_offer_id, returned_log>>]_vars

\* An order for more than the 20 units in stock was refused while an offer
\* is registered.
C15_Witness ==
    /\ ret.op = "process_one_off_order" /\ ~ret.ok /\ ret.value = None
    /\ ret.item = "TS-B" /\ ret.amount = 100 /\ stock["TS-B"] = 20
    /\ DOMAIN offers # {}

\* C16: a finalizing complete_bid takes the no-bid path (winner stays none,
\* quantity credited back) if and only if the bid mapping is empty; with at
\* least one bid, whatever the merchant identifier, the highest bidder is
\* recorded as winner and nothing is credited back.
C16_NoBidPathIffNoBids ==
    [][Finalizes(ret') =>
          LET o == Target(ret')
              bids == offers[o].bids IN
          /\ offers'[o].winner = None <=> bids = <<>>
          /\ returned_log'[o] # returned_log[o] => bids = <<>>
          /\ bids # <<>> =>
                /\ offers'[o].winner = Some(bids[First(Highest(bids))][1])
                /\ stock' = stock]_vars

\* Sum of the quantities of the offers of S.
RECURSIVE SumQuantity(_)
SumQuantity(S) ==
    IF S = {} THEN 0
    ELSE LET o == CHOOSE x \in S : TRUE IN
         offers[o].quantity + SumQuantity(S \ {o})

\* Quantity of item i held by offers that are active or completed with a
\* winner.
Reserved(i) ==
    SumQuantity({o \in DOMAIN offers :
                   /\ offers[o].item_id = i
                   /\ \/ offers[o].status = "active"
                      \/ offers[o].winner # None})

Balance(i) == stock[i] + Reserved(i)

\* C17: stock conservation. For every item, stock + reserved quantities of the
\* offers that are active or completed with a winner starts at the seed stock
\* and moves only by the delta of a successful update_stock and by minus the
\* quantity of a successful one-off order; no other call changes it.
C17_StockConservation ==
    /\ \A i \in Items : Balance(i) = SeedStock[i]
    /\ [][\A i \in Items :
            Balance(i)' - Balance(i) =
              IF ret'.op = "update_stock" /\ ret'.ok /\ ret'.item = i
              THEN ret'.amount
              ELSE IF ret'.op = "process_one_off_order" /\ ret'.ok
                      /\ ret'.item = i
              THEN -ret'.amount
              ELSE 0]_vars

\* A merchant that has no stored bid on any offer.
NewMerchant == "Merchant-New"

\* complete_bid would pass both of its guards for this offer at time t.
WouldComplete(offer, t) == ~NotActive(offer) /\ ~StillOpen(offer, t)

C19_OfferFieldsConsistent ==
    \A o \in DOMAIN offers :
        LET f == offers[o] IN
        /\ f.status \in {"active", "completed"}
        /\ f.status = "active" => (f.winner = None /\ f.winning_bid = 0)
        /\ f.winner # None =>
              /\ f.status = "completed"
              /\ f.winner[1] \in BidKeys(f.bids)
              /\ f.winning_bid = BidOf(f.bids, f.winner[1])
              /\ f.winning_bid = MaxAmount(f.bids)
        /\ f.bids = <<>> => (f.winner = None /\ f.winning_bid = 0)

\* One offer is completed with the later, higher of two bidders as winner
\* and another is completed without bids.
C19_Witness ==
    /\ \E o \in DOMAIN offers :
          /\ offers[o].status = "completed" /\ offers[o].winner # None
          /\ Len(offers[o].bids) = 2
          /\ offers[o].winner[1] = offers[o].bids[2][1]
          /\ offers[o].bids[1][2] < offers[o].bids[2][2]
    /\ \E o \in DOMAIN offers :
          offers[o].status = "completed" /\ offers[o].bids = <<>>

\* C20: track_bid touches nothing but one bid entry. Accepted, rejected or
\* addressed to an unknown offer id, it leaves the stocks, the offer-id
\* counter, the set of registered offers, every other offer and the target's
\* status, winner, winning bid, quantity, end time, item and the other
\* merchants' entries unchanged; an accepted bid changes only the bidder's
\* entry, a rejected one changes nothing, no entry is removed and the
\* offer's highest recorded amount never decreases.
C20_TrackBidFrame ==
    [][ret'.op = "track_bid" =>
          LET o == Target(ret')
              m == ret'.merchant IN
          /\ UNCHANGED <<stock, next_offer_id, returned_log>>
          /\ DOMAIN offers' = DOMAIN offers
          /\ \A p \in DOMAIN offers \ {o} : offers'[p] = offers[p]
          /\ o \notin DOMAIN offers => (~ret'.ok /\ offers' = offers)
          /\ o \in DOMAIN offers =>
                LET old == offers[o].bids
                    new == offers'[o].bids IN
                /\ offers'[o] = [offers[o] EXCEPT !.bids = new]
                /\ \A k \in BidKeys(old) :
                      /\ k \in BidKeys(new)
                      /\ BidIndex(new, k) = BidIndex(old, k)
                      /\ k # m => BidOf(new, k) = BidOf(old, k)
                /\ BidKeys(new) \subseteq BidKeys(old) \cup {m}
                /\ ret'.ok => BidOf(new, m) = ret'.amount
                /\ ~ret'.ok => new = old
                /\ old # <<>> => MaxAmount(new) >= MaxAmount(old)]_vars

\* A second merchant's bid was accepted next to the first merchant's entry
\* while another offer, holding a bid of its own, is registered.
C20_Witness ==
    /\ OnOffer(ret, "track_bid") /\ ret.ok
    /\ Len(offers[Target(ret)].bids) = 2
    /\ offers[Target(ret)].bids[2] = <<ret.merchant, ret.amount>>
    /\ \E p \in DOMAIN offers \ {Target(ret)} : offers[p].bids # <<>>
====
